---- MODULE Spec2Model ----
(***************************************************************************)
(* Model of GetIdracLcLogsREDFISH.py: the capability probe, the firmware   *)
(* version detection and the six retrieval modes of the iDRAC Lifecycle    *)
(* Controller log client.  One action is one HTTP exchange together with   *)
(* all the code the script runs until its next request (or its exit).      *)
(* Python strings are tuples of one-character strings, so that lower(),    *)
(* split(".") and the "in" substring test are computed, not assumed.       *)
(* The iDRAC is the environment: each response is chosen by \E.            *)
(***************************************************************************)
EXTENDS Integers, Sequences, FiniteSets, TLC

(* ------------------------------ bounds -------------------------------- *)
\* most entries the scripted server hands out over one run
MaxServed == 2
\* most entries in one page of the scripted server
MaxPageLen == 2
\* skip fetches the scripted server answers freely; the next one gets an error status
MaxFetch == 2

(* ------------------------- program constants -------------------------- *)
\* range(1,100001)
RangeStop == 100001
\* i % 50 == 0
PageSize == 50
\* int(FirmwareVersion without dots) >= 6000000
VersionThreshold == 6000000
\* sys.exit(0), or the end of the script: exit status 0
ExitOk == "0"
\* an uncaught exception: the interpreter prints the traceback, exit status 1
ExitTraceback == "1"
\* the process has not exited
Running == "running"

(* ------------------------------ strings ------------------------------- *)
UpperCase == <<"A", "B", "C", "D", "E", "F", "G", "H", "I", "J", "K", "L", "M", "N", "O", "P", "Q", "R", "S", "T", "U", "V", "W", "X", "Y", "Z">>
LowerCase == <<"a", "b", "c", "d", "e", "f", "g", "h", "i", "j", "k", "l", "m", "n", "o", "p", "q", "r", "s", "t", "u", "v", "w", "x", "y", "z">>
Digits == <<"0", "1", "2", "3", "4", "5", "6", "7", "8", "9">>

\* str.lower() on one character
LowerChar(c) ==
    IF \E i \in 1..Len(UpperCase) : UpperCase[i] = c
    THEN LowerCase[CHOOSE i \in 1..Len(UpperCase) : UpperCase[i] = c]
    ELSE c

\* str.lower()
Lower(s) == [i \in 1..Len(s) |-> LowerChar(s[i])]

\* Python's "needle in hay" on strings
Contains(needle, hay) ==
    \E i \in 0..(Len(hay) - Len(needle)) : SubSeq(hay, i + 1, i + Len(needle)) = needle

\* s.split(".")[-1]
SplitLast(s) ==
    LET dots == {i \in 1..Len(s) : s[i] = "."}
    IN  IF dots = {} THEN s
        ELSE SubSeq(s, (CHOOSE i \in dots : \A j \in dots : j <= i) + 1, Len(s))

\* s.replace(".", "")
RemoveDots(s) == SelectSeq(s, LAMBDA c : c # ".")

DigitValue(c) == (CHOOSE i \in 1..Len(Digits) : Digits[i] = c) - 1

\* int(s) for a string of decimal digits
ParseInt(s) ==
    LET v[i \in 0..Len(s)] == IF i = 0 THEN 0 ELSE 10 * v[i - 1] + DigitValue(s[i])
    IN  v[Len(s)]

(* ---------------------- the log held by the iDRAC ---------------------- *)
\* An entry is the list of its (key, value) items in dict order; the nested
\* Oem.Dell.Category value is carried under the key "Oem".
EntryTable == <<
    << <<"Message", <<"U", "n", "a", "b", "l", "e", " ", "t", "o", " ", "c", "o", "n", "f", "i", "g", "u", "r", "e", " ", "N", "I", "C">>>>,
       <<"MessageId", <<"U", "p", "d", "a", "t", "e", ".", "1", ".", "0", ".", "W", "R", "K", "0", "0", "0", "1">>>>,
       <<"Oem", <<"A", "u", "d", "i", "t">>>> >>,
    << <<"Message", <<"C", "o", "n", "f", "i", "g", "u", "r", "a", "t", "i", "o", "n", " ", "a", "p", "p", "l", "i", "e", "d", " ", "s", "u", "c", "c", "e", "s", "s", "f", "u", "l", "l", "y">>>>,
       <<"MessageId", <<"W", "R", "K", "0", "0", "0", "1">>>>,
       <<"Oem", <<"C", "o", "n", "f", "i", "g", "u", "r", "a", "t", "i", "o", "n">>>> >>,
    << <<"MessageId", <<"U", "p", "d", "a", "t", "e", ".", "1", ".", "0", ".", "U", "S", "R", "0", "0", "3", "0">>>>,
       <<"Message", <<"J", "o", "b", " ", "F", "A", "I", "L", "E", "D">>>>,
       <<"Oem", <<"S", "t", "o", "r", "a", "g", "e">>>> >>,
    << <<"Message", <<"I", "n", "t", "e", "r", "n", "a", "l", " ", "E", "r", "r", "o", "r", " ", "l", "o", "g", "g", "e", "d">>>> >>
>>

EntryIds == 1..Len(EntryTable)

HasKey(e, k) == \E i \in 1..Len(EntryTable[e]) : EntryTable[e][i][1] = k

\* i[k] for a key the entry holds
Field(e, k) == EntryTable[e][CHOOSE i \in 1..Len(EntryTable[e]) : EntryTable[e][i][1] = k][2]

\* error.@Message.ExtendedInfo[0].Message of an error body
ErrorMessages == <<
    <<"t", "h", "e", " ", "v", "a", "l", "u", "e", " ", "e", "n", "t", "e", "r", "e", "d", " ", "f", "o", "r", " ", "t", "h", "e", " ", "q", "u", "e", "r", "y", " ", "p", "a", "r", "a", "m", "e", "t", "e", "r", " ", "$", "s", "k", "i", "p", " ", "i", "s", " ", "o", "u", "t", " ", "o", "f", " ", "r", "a", "n", "g", "e", ".">>,
    <<"T", "h", "e", " ", "r", "e", "q", "u", "e", "s", "t", " ", "f", "a", "i", "l", "e", "d", " ", "d", "u", "e", " ", "t", "o", " ", "a", "n", " ", "i", "n", "t", "e", "r", "n", "a", "l", " ", "e", "r", "r", "o", "r", ".">>,
    <<"T", "h", "e", " ", "r", "e", "s", "o", "u", "r", "c", "e", " ", "a", "t", " ", "t", "h", "e", " ", "U", "R", "I", " ", "w", "a", "s", " ", "n", "o", "t", " ", "f", "o", "u", "n", "d", ".">>
>>

Statuses == {200, 400, 401, 500}

\* bodies of a log request: a Members list, or a body without Members
\* (status 200), or an error body (any other status)
SeqsUpTo(S, n) == UNION {[1..k -> S] : k \in 0..n}

MembersResponses(n) ==
    {[status |-> 200, body |-> "members", page |-> p, msg |-> 0] : p \in SeqsUpTo(EntryIds, n)}

ErrorResponses ==
    {[status |-> s, body |-> "error", page |-> <<>>, msg |-> m] :
        s \in Statuses \ {200}, m \in 1..Len(ErrorMessages)}

NoMembersResponse == [status |-> 200, body |-> "nomembers", page |-> <<>>, msg |-> 0]

\* the page the endless server answers at every offset
FillerPage == <<1>>

FirmwareVersions == {<<"5", ".", "1", "0", ".", "5", "0", ".", "0", "0">>, <<"6", ".", "1", "0", ".", "3", "0">>, <<"6", ".", "0", "0", ".", "0", "0", ".", "0", "0">>, <<"7", ".", "0", "0", ".", "0", "2", ".", "0", "0">>}

(* ------------------------- command line inputs ------------------------- *)
SeverityInputs == {<<"i", "n", "f", "o", "r", "m", "a", "t", "i", "o", "n", "a", "l">>, <<"w", "a", "r", "n", "i", "n", "g">>, <<"c", "r", "i", "t", "i", "c", "a", "l">>, <<"C", "r", "i", "t", "i", "c", "a", "l">>, <<"f", "a", "t", "a", "l">>}
CategoryInputs == {<<"a", "u", "d", "i", "t">>, <<"A", "u", "d", "i", "t">>, <<"b", "o", "g", "u", "s">>}
MessageIdInputs == {<<"W", "R", "K", "0", "0", "0", "1">>, <<"w", "r", "k", "0", "0", "0", "1", ",", "U", "S", "R", "0", "0", "3", "0">>}

ArgSets ==
       {[mode |-> m, value |-> <<>>] : m \in {"get_all", "get_fail", "get_date_range", "none"}}
    \cup {[mode |-> "get_severity", value |-> v] : v \in SeverityInputs}
    \cup {[mode |-> "get_category", value |-> v] : v \in CategoryInputs}
    \cup {[mode |-> "get_message_id", value |-> v] : v \in MessageIdInputs}

\* range(0,100001): offset 0 fetched a second time
number_list_FromZero ==
    SelectSeq([i \in 1..RangeStop |-> i - 1], LAMBDA i : i % PageSize = 0)

\* range(1,100051): one offset more
number_list_OneMore ==
    SelectSeq([i \in 1..(RangeStop - 1 + PageSize) |-> i], LAMBDA i : i % PageSize = 0)

\* number_list = [i for i in range (1,100001) if i % 50 == 0]
number_list == SelectSeq([i \in 1..(RangeStop - 1) |-> i], LAMBDA i : i % PageSize = 0)

VARIABLES
    args,           \* the parsed command line: retrieval mode and its value
    server,         \* "scripted": free answers within the bounds; "endless": a log of
                    \* 100,000 entries or more, every page FillerPage (the last may be empty)
    pc,             \* "main", "get_version", "dispatch", "loop", "exit"
    exitStatus,     \* Running, ExitOk or ExitTraceback
    raised,         \* the uncaught exception that ended the run, or "none"
    iDRAC_version,  \* the global: "undefined", "old" or "new"
    FirmwareVersion, \* data["FirmwareVersion"] of the version response, <<>> before it
    fileExists,     \* the mode's output file exists on disk
    stale,          \* the file on disk is the one an earlier run left
    handle,         \* open_file: "none", "open" or "closed"
    opens,          \* calls of open()
    closes,         \* calls of open_file.close()
    removedOpen,    \* os.remove() ran on the output file while open_file was open
    written,        \* the entries written through open_file, in order
    lastLines,      \* the lines of text written for the entry recorded last
    count,          \* the match counter
    seqIdx,         \* position in number_list of the next skip fetch
    calls,          \* the requests other than log page fetches, in order
    offsets,        \* the offsets of the log page fetches, in order (0: no $skip)
    served,         \* the entries of the Members pages received, in order
    pageLens,       \* the length of each Members list received, in order
    lastStatus,     \* status code of the last response
    lastMsg,        \* index in ErrorMessages of the message of the last response to a
                    \* log page fetch, 0 when it carried no error body
    ended,          \* what ended the walk: "none", "empty", "http500", "endoflog", "fatal", "cap", "error"
    printed         \* the kinds of message logged

vars == <<args, server, pc, exitStatus, raised, iDRAC_version, FirmwareVersion, fileExists, stale, handle,
          opens, closes, removedOpen, written, lastLines, count, seqIdx, calls, offsets, served,
          pageLens, lastStatus, lastMsg, ended, printed>>

fileVars == <<fileExists, stale, handle, opens, closes, removedOpen, written, lastLines,
             count>>
walkVars == <<seqIdx, offsets, served, pageLens, lastMsg, ended>>

Init ==
    /\ args \in ArgSets
    /\ server \in {"scripted", "endless"}
    /\ pc = "main"
    /\ exitStatus = Running
    /\ raised = "none"
    /\ iDRAC_version = "undefined"
    /\ FirmwareVersion = <<>>
    /\ fileExists \in BOOLEAN
    /\ stale = fileExists
    /\ handle = "none"
    /\ opens = 0
    /\ closes = 0
    /\ removedOpen = FALSE
    /\ written = <<>>
    /\ lastLines = <<>>
    /\ count = 0
    /\ seqIdx = 0
    /\ calls = <<>>
    /\ offsets = <<>>
    /\ served = <<>>
    /\ pageLens = <<>>
    /\ lastStatus = 0
    /\ lastMsg = 0
    /\ ended = "none"
    /\ printed = {}

\* sys.exit(0), or falling off the end of the script
Exit(status) ==
    /\ pc' = "exit"
    /\ exitStatus' = status

(* ------------------------- capability probe --------------------------- *)
\* the probe that aborts on 401 only: any other status lets the run proceed
check_supported_idrac_version_Only401 ==
    /\ pc = "main"
    /\ \E status \in Statuses :
        /\ calls' = Append(calls, "Lclog")
        /\ lastStatus' = status
        /\ IF status = 401
           THEN /\ printed' = printed \cup {"incorrect_credentials"}
                /\ Exit(ExitOk)
           ELSE /\ pc' = "get_version"
                /\ UNCHANGED <<printed, exitStatus>>
    /\ UNCHANGED <<args, server, raised, iDRAC_version, FirmwareVersion, fileVars, walkVars>>

\* lines 61-72
check_supported_idrac_version ==
    /\ pc = "main"
    /\ \E status \in Statuses :
        /\ calls' = Append(calls, "Lclog")
        /\ lastStatus' = status
        /\ IF status = 401
           THEN /\ printed' = printed \cup {"incorrect_credentials"}
                /\ Exit(ExitOk)
           ELSE IF status # 200
           THEN /\ printed' = printed \cup {"not_supported"}
                /\ Exit(ExitOk)
           ELSE /\ pc' = "get_version"
                /\ UNCHANGED <<printed, exitStatus>>
    /\ UNCHANGED <<args, server, raised, iDRAC_version, FirmwareVersion, fileVars, walkVars>>

\* the threshold itself taken for "old"
VersionOf_Above(fw) == IF ParseInt(RemoveDots(fw)) > VersionThreshold THEN "new" ELSE "old"

\* lines 87-90
VersionOf(fw) == IF ParseInt(RemoveDots(fw)) >= VersionThreshold THEN "new" ELSE "old"

get_iDRAC_version ==
    /\ pc = "get_version"
    /\ \E status \in Statuses, fw \in FirmwareVersions :
        /\ calls' = Append(calls, "FirmwareVersion")
        /\ lastStatus' = status
        /\ IF status = 401
           THEN /\ printed' = printed \cup {"status_401"}
                /\ pc' = "dispatch"
                /\ UNCHANGED <<exitStatus, iDRAC_version, FirmwareVersion>>
           ELSE IF status # 200
           THEN /\ printed' = printed \cup {"no_version"}
                /\ Exit(ExitOk)
                /\ UNCHANGED <<iDRAC_version, FirmwareVersion>>
           ELSE /\ FirmwareVersion' = fw
                /\ iDRAC_version' = VersionOf(fw)
                /\ pc' = "dispatch"
                /\ UNCHANGED <<printed, exitStatus>>
    /\ UNCHANGED <<args, server, raised, fileVars, walkVars>>

(* ----------------------------- the file ------------------------------- *)
FileRec == [exists |-> fileExists, stale |-> stale, handle |-> handle,
            opens |-> opens, closes |-> closes, removedOpen |-> removedOpen]

\* os.remove(name): the caller's try/except swallows the error of a missing file
Remove(f) == [f EXCEPT !.exists = FALSE, !.stale = FALSE,
                       !.removedOpen = @ \/ (f.exists /\ f.handle = "open")]

\* open(name, "w") and the timestamp lines written first
Open(f) == [f EXCEPT !.exists = TRUE, !.stale = FALSE, !.handle = "open", !.opens = @ + 1]

\* open_file.close()
Close(f) == [f EXCEPT !.handle = "closed", !.closes = @ + 1]

(* ------------------- the state a mode function works on ---------------- *)
Work == [file |-> FileRec, written |-> written, lines |-> lastLines, count |-> count,
         raised |-> "none",
         printed |-> {}, exit |-> Running, ended |-> "none"]

\* the file neither removed nor truncated: opened for append over what is on disk
Prologue_Append(st) ==
    [st EXCEPT !.file = [@ EXCEPT !.exists = TRUE, !.handle = "open", !.opens = @ + 1],
               !.count = 0, !.written = <<>>, !.lines = <<>>]

\* the try: os.remove / open / timestamp prologue of the four file modes
Prologue(st) ==
    [st EXCEPT !.file = Open(Remove(@)), !.count = 0, !.written = <<>>, !.lines = <<>>]

\* an exception nothing catches: traceback, exit status 1
Raise(st, exc) == [st EXCEPT !.raised = exc, !.exit = ExitTraceback, !.ended = "error"]

Log(st, what) == [st EXCEPT !.printed = @ \cup {what}]

\* sys.exit(0), or the return to __main__, which then ends
Stop(st, why) == [st EXCEPT !.exit = ExitOk,
                            !.ended = IF @ = "none" THEN why ELSE @]

CloseFile(st) == [st EXCEPT !.file = Close(@)]
RemoveFile(st) == [st EXCEPT !.file = Remove(@)]

\* one entry written to open_file
Record(st, e) == [st EXCEPT !.written = Append(@, e)]

\* the text of that entry, as the lines the writelines calls make
WriteLines(st, lines) == [st EXCEPT !.lines = lines]

(* ----------------------- the text of one entry ------------------------- *)
KeyChars(k) ==
    CASE k = "Message" -> <<"M", "e", "s", "s", "a", "g", "e">>
      [] k = "MessageId" -> <<"M", "e", "s", "s", "a", "g", "e", "I", "d">>
      [] k = "Oem" -> <<"O", "e", "m">>

\* "%s" % value: a string as it is, the nested Oem object as its repr
ValueText(item) ==
    IF item[1] = "Oem" THEN <<"{", "'", "D", "e", "l", "l", "'", ":", " ", "{", "'", "C", "a", "t", "e", "g", "o", "r", "y", "'", ":", " ", "'">> \o item[2] \o <<"'", "}", "}">> ELSE item[2]

\* repr(value) inside str(i)
ValueRepr(item) ==
    IF item[1] = "Oem" THEN ValueText(item) ELSE <<"'">> \o item[2] \o <<"'">>

\* lines 157-160: "%s: %s" % (ii[0], ii[1]) and "\n" for every item, then "\n"
ItemLines(e) ==
    [i \in 1..Len(EntryTable[e]) |->
        KeyChars(EntryTable[e][i][1]) \o <<":", " ">> \o ValueText(EntryTable[e][i])] \o << <<>> >>

\* str(i) of the entry's dict
DictRepr(e) ==
    LET items == EntryTable[e]
        r[i \in 0..Len(items)] ==
            IF i = 0 THEN <<"{">>
            ELSE r[i - 1] \o (IF i > 1 THEN <<",", " ">> ELSE <<>>)
                    \o <<"'">> \o KeyChars(items[i][1]) \o <<"'", ":", " ">> \o ValueRepr(items[i])
    IN  r[Len(items)] \o <<"}">>

\* lines 386-387: str(i), then "\n\n"
StrLines(e) == <<DictRepr(e), <<>>>>

(* ------------------ what each mode does with one entry ---------------- *)
\* the entry put in front of the file's content instead of after it
WriteEntry_Prepend(e, st) == [st EXCEPT !.written = <<e>> \o @, !.lines = ItemLines(e)]

\* lines 155-160 and 182-187
WriteEntry(e, st) == WriteLines(Record(st, e), ItemLines(e))

\* the keywords looked for in the message as it is, without lower()
FailMatches_NoLower(m) ==
    \/ Contains(<<"u", "n", "a", "b", "l", "e">>, m)
    \/ Contains(<<"f", "a", "i", "l">>, m)
    \/ Contains(<<"e", "r", "r", "o", "r">>, m)

\* lines 212, 253
FailMatches(m) ==
    \/ Contains(<<"u", "n", "a", "b", "l", "e">>, Lower(m))
    \/ Contains(<<"f", "a", "i", "l">>, Lower(m))
    \/ Contains(<<"e", "r", "r", "o", "r">>, Lower(m))

\* the entry written without count += 1
FailStep_NoCount(e, st) ==
    IF HasKey(e, "Message") /\ FailMatches(Field(e, "Message"))
    THEN WriteLines(Record(st, e), ItemLines(e))
    ELSE st

\* lines 210-219, 251-260
FailStep(e, st) ==
    IF HasKey(e, "Message") /\ FailMatches(Field(e, "Message"))
    THEN WriteLines(Record([st EXCEPT !.count = @ + 1], e), ItemLines(e))
    ELSE st

\* split(".")[-1] applied whatever the version
NormalizeMessageId_AlwaysSplit(version, id) == SplitLast(id)

\* lines 293-296, 338-341
NormalizeMessageId(version, id) == IF version = "new" THEN SplitLast(id) ELSE id

\* lines 297, 342
MessageIdMatches(version, id, wanted) ==
    Contains(Lower(NormalizeMessageId(version, id)), Lower(wanted))

\* lines 291-304, 336-349: reading the unset global raises NameError
MessageIdStep(e, st) ==
    IF ~HasKey(e, "MessageId") THEN st
    ELSE IF iDRAC_version = "undefined" THEN Raise(st, "NameError")
    ELSE IF MessageIdMatches(iDRAC_version, Field(e, "MessageId"), args.value)
    THEN WriteLines(Record([st EXCEPT !.count = @ + 1], e), ItemLines(e))
    ELSE st

Categories == {<<"a", "u", "d", "i", "t">>, <<"c", "o", "n", "f", "i", "g", "u", "r", "a", "t", "i", "o", "n">>, <<"u", "p", "d", "a", "t", "e", "s">>, <<"s", "y", "s", "t", "e", "m", "h", "e", "a", "l", "t", "h">>, <<"s", "t", "o", "r", "a", "g", "e">>}

\* line 362
CategoryAccepted(value) == Lower(value) \in Categories

\* lines 383, 423: the entry's category is lower-cased, the argument is not
CategoryMatches(category, value) == Lower(category) = value

\* lines 383-388, 423-428: i["Oem"]["Dell"]["Category"] of an entry without it raises KeyError
CategoryStep(e, st) ==
    IF ~HasKey(e, "Oem") THEN Raise(st, "KeyError")
    ELSE IF CategoryMatches(Field(e, "Oem"), args.value)
    THEN WriteLines(Record([st EXCEPT !.count = @ + 1], e), StrLines(e))
    ELSE st

\* the body of the mode's for i in data['Members'] loop
Step(mode, e, st) ==
    CASE mode = "get_all" -> WriteEntry(e, st)
      [] mode = "get_fail" -> FailStep(e, st)
      [] mode = "get_message_id" -> MessageIdStep(e, st)
      [] mode = "get_category" -> CategoryStep(e, st)

\* for i in data['Members']: body, left at the first uncaught exception
Scan(page, st0, mode) ==
    LET f[i \in 0..Len(page)] ==
            IF i = 0 THEN st0
            ELSE IF f[i - 1].raised # "none" THEN f[i - 1]
            ELSE Step(mode, page[i], f[i - 1])
    IN  f[Len(page)]

SkipOutOfRange(m) == Contains(<<"q", "u", "e", "r", "y", " ", "p", "a", "r", "a", "m", "e", "t", "e", "r", " ", "$", "s", "k", "i", "p", " ", "i", "s", " ", "o", "u", "t", " ", "o", "f", " ", "r", "a", "n", "g", "e">>, ErrorMessages[m])
InternalError(m) == Contains(<<"i", "n", "t", "e", "r", "n", "a", "l", " ", "e", "r", "r", "o", "r">>, ErrorMessages[m])

\* what the iDRAC may answer to the next log page fetch
Min(a, b) == IF a < b THEN a ELSE b

PageResponses ==
    IF server = "endless"
    THEN {[status |-> 200, body |-> "members", page |-> p, msg |-> 0] :
            p \in {FillerPage} \cup (IF seqIdx = Len(number_list) THEN {<<>>} ELSE {})}
    ELSE IF seqIdx > MaxFetch
    THEN ErrorResponses
    ELSE MembersResponses(Min(MaxPageLen, MaxServed - Len(served)))
            \cup {NoMembersResponse} \cup ErrorResponses

\* the variables an exchange of a walk sets from the function's result
Apply(r, offset, st) ==
    /\ offsets' = Append(offsets, offset)
    /\ lastStatus' = r.status
    /\ lastMsg' = r.msg
    /\ served' = IF r.body = "members" THEN served \o r.page ELSE served
    /\ pageLens' = IF r.body = "members" THEN Append(pageLens, Len(r.page)) ELSE pageLens
    /\ fileExists' = st.file.exists
    /\ stale' = st.file.stale
    /\ handle' = st.file.handle
    /\ opens' = st.file.opens
    /\ closes' = st.file.closes
    /\ removedOpen' = st.file.removedOpen
    /\ written' = st.written
    /\ lastLines' = st.lines
    /\ count' = st.count
    /\ raised' = st.raised
    /\ printed' = printed \cup st.printed
    /\ ended' = st.ended
    /\ IF st.exit = Running
       THEN /\ pc' = "loop"
            /\ seqIdx' = seqIdx + 1
            /\ exitStatus' = Running
       ELSE /\ Exit(st.exit)
            /\ seqIdx' = seqIdx
    /\ UNCHANGED <<args, server, iDRAC_version, FirmwareVersion, calls>>

(* ------------------- HTTP 500 answered to a skip fetch ------------------ *)
\* the file deleted after the close
Http500_Remove(st) == Stop(RemoveFile(Log(CloseFile(st), "captured")), "http500")

\* lines 168-171, 227-230, 312-315
Http500(st) == Stop(Log(CloseFile(st), "captured"), "http500")

(* ----------------------------- full dump ------------------------------- *)
\* the cleanup of the three scans applied to the full dump: an empty file is deleted
LC_logs_after_RemoveEmpty(st) ==
    IF st.written = <<>>
    THEN Stop(RemoveFile(Log(st, "captured")), "cap")
    ELSE Stop(CloseFile(Log(st, "captured")), "cap")

\* lines 188-189
LC_logs_after(st) == Stop(CloseFile(Log(st, "captured")), "cap")

\* lines 136-160
LC_logs_first(r) ==
    LET st == Prologue(Work)
    IN  IF r.status # 200 THEN Stop(Log(st, "get_failed"), "fatal")
        ELSE IF r.body # "members" THEN Raise(st, "KeyError")
        ELSE Scan(r.page, st, "get_all")

\* lines 162-189, one pass of the for loop
LC_logs_skip(r) ==
    IF r.status = 500 THEN Http500(Work)
    ELSE IF r.status # 200
    THEN IF SkipOutOfRange(r.msg)
         THEN Stop(Log(CloseFile(Work), "captured"), "endoflog")
         ELSE Stop(Log(Work, "skip_failed"), "fatal")
    ELSE IF r.body # "members" \/ r.page = <<>> \/ r.status = 400
    THEN LC_logs_after([Work EXCEPT !.ended = "empty"])
    ELSE LET st == Scan(r.page, Work, "get_all")
         IN  IF seqIdx = Len(number_list) THEN LC_logs_after(st) ELSE st

get_LC_logs ==
    /\ pc = "dispatch"
    /\ args.mode = "get_all"
    /\ \E r \in PageResponses : Apply(r, 0, LC_logs_first(r))

get_LC_logs_loop ==
    /\ pc = "loop"
    /\ args.mode = "get_all"
    /\ \E r \in PageResponses : Apply(r, number_list[seqIdx], LC_logs_skip(r))

(* ------------------- the tail shared by the three scans ---------------- *)
\* lines 232-244, 317-329, 406-418: an end-of-log error message
EndOfLogExit(st, none_found) ==
    LET closed == CloseFile(st)
    IN  IF st.count = 0
        THEN Stop(RemoveFile(Log(closed, none_found)), "endoflog")
        ELSE Stop(CloseFile(Log(closed, "captured")), "endoflog")

\* lines 261-270, 350-359, 429-438: after the for loop
ScanAfter(st, none_found) ==
    IF st.count = 0
    THEN Stop(RemoveFile(Log(st, none_found)), "cap")
    ELSE Stop(CloseFile(Log(st, "captured")), "cap")

(* ---------------------------- fail keywords ---------------------------- *)
\* lines 191-219: no status check before data['Members']
LC_log_failures_first(r) ==
    LET st == Prologue(Work)
    IN  IF r.body # "members" THEN Raise(st, "KeyError")
        ELSE Scan(r.page, st, "get_fail")

\* lines 221-270, one pass of the for loop
LC_log_failures_skip(r) ==
    IF r.status = 500 THEN Http500(Work)
    ELSE IF r.status # 200
    THEN IF SkipOutOfRange(r.msg) \/ InternalError(r.msg)
         THEN EndOfLogExit(Work, "no_failed_entries")
         ELSE Stop(Log(Work, "skip_failed"), "fatal")
    ELSE IF r.body # "members" \/ r.page = <<>> \/ r.status = 400 \/ r.status = 500
    THEN ScanAfter([Work EXCEPT !.ended = "empty"], "no_failed_entries")
    ELSE LET st == Scan(r.page, Work, "get_fail")
         IN  IF st.raised = "none" /\ seqIdx = Len(number_list)
             THEN ScanAfter(st, "no_failed_entries") ELSE st

get_LC_log_failures ==
    /\ pc = "dispatch"
    /\ args.mode = "get_fail"
    /\ \E r \in PageResponses : Apply(r, 0, LC_log_failures_first(r))

get_LC_log_failures_loop ==
    /\ pc = "loop"
    /\ args.mode = "get_fail"
    /\ \E r \in PageResponses : Apply(r, number_list[seqIdx], LC_log_failures_skip(r))

(* ----------------------------- message ID ------------------------------ *)
\* lines 272-304
message_id_first(r) ==
    LET st == Prologue(Work)
    IN  IF r.body # "members" THEN Raise(st, "KeyError")
        ELSE Scan(r.page, st, "get_message_id")

\* lines 306-359, one pass of the for loop
message_id_skip(r) ==
    IF r.status = 500 THEN Http500(Work)
    ELSE IF r.status # 200
    THEN IF SkipOutOfRange(r.msg) \/ InternalError(r.msg)
         THEN EndOfLogExit(Work, "no_message_id_entries")
         ELSE Stop(Log(Work, "skip_failed"), "fatal")
    ELSE IF r.body # "members" \/ r.page = <<>> \/ r.status = 400 \/ r.status = 500
    THEN ScanAfter([Work EXCEPT !.ended = "empty"], "no_failed_entries")
    ELSE LET st == Scan(r.page, Work, "get_message_id")
         IN  IF st.raised = "none" /\ seqIdx = Len(number_list)
             THEN ScanAfter(st, "no_failed_entries") ELSE st

get_message_id ==
    /\ pc = "dispatch"
    /\ args.mode = "get_message_id"
    /\ \E r \in PageResponses : Apply(r, 0, message_id_first(r))

get_message_id_loop ==
    /\ pc = "loop"
    /\ args.mode = "get_message_id"
    /\ \E r \in PageResponses : Apply(r, number_list[seqIdx], message_id_skip(r))

(* ------------------------------ category ------------------------------- *)
\* lines 365-388
category_first(r) ==
    LET st == Prologue(Work)
    IN  IF r.body # "members" THEN Raise(st, "KeyError")
        ELSE Scan(r.page, st, "get_category")

\* lines 390-438, one pass of the for loop: an empty Members list does not leave it
category_skip(r) ==
    IF r.status = 500
    THEN IF count = 0
         THEN Stop(RemoveFile(CloseFile(Log(Work, "no_category_entries"))), "http500")
         ELSE Stop(CloseFile(Log(Work, "captured")), "http500")
    ELSE IF r.status # 200
    THEN IF SkipOutOfRange(r.msg) \/ InternalError(r.msg)
         THEN EndOfLogExit(Work, "no_message_id_entries")
         ELSE Stop(Log(Work, "skip_failed"), "fatal")
    ELSE IF r.body # "members" THEN Raise(Work, "KeyError")
    ELSE LET st == Scan(r.page, Work, "get_category")
         IN  IF st.raised = "none" /\ seqIdx = Len(number_list)
             THEN ScanAfter(st, "no_category_entries") ELSE st

\* lines 361-364
category_invalid ==
    /\ pc = "dispatch"
    /\ args.mode = "get_category"
    /\ ~CategoryAccepted(args.value)
    /\ printed' = printed \cup {"invalid_category"}
    /\ Exit(ExitOk)
    /\ UNCHANGED <<args, server, raised, iDRAC_version, FirmwareVersion, fileVars, walkVars, calls, lastStatus>>

get_category_entries ==
    /\ pc = "dispatch"
    /\ args.mode = "get_category"
    /\ CategoryAccepted(args.value)
    /\ \E r \in PageResponses : Apply(r, 0, category_first(r))

get_category_entries_loop ==
    /\ pc = "loop"
    /\ args.mode = "get_category"
    /\ \E r \in PageResponses : Apply(r, number_list[seqIdx], category_skip(r))

(* ----------------------- server-side filter modes ---------------------- *)
\* the comparisons without .lower()
SeverityFilter_CaseSensitive(value) ==
    IF value = <<"i", "n", "f", "o", "r", "m", "a", "t", "i", "o", "n", "a", "l">> THEN "Severity eq 'OK'"
    ELSE IF value = <<"c", "r", "i", "t", "i", "c", "a", "l">> THEN "Severity eq 'Critical'"
    ELSE IF value = <<"w", "a", "r", "n", "i", "n", "g">> THEN "Severity eq 'Warning'"
    ELSE ""

\* lines 93-101: the value of the Severity eq filter, "" when the argument is refused
SeverityFilter(value) ==
    IF Lower(value) = <<"i", "n", "f", "o", "r", "m", "a", "t", "i", "o", "n", "a", "l">> THEN "Severity eq 'OK'"
    ELSE IF Lower(value) = <<"c", "r", "i", "t", "i", "c", "a", "l">> THEN "Severity eq 'Critical'"
    ELSE IF Lower(value) = <<"w", "a", "r", "n", "i", "n", "g">> THEN "Severity eq 'Warning'"
    ELSE ""

FilterResponses ==
    MembersResponses(MaxPageLen) \cup {NoMembersResponse} \cup ErrorResponses

\* lines 106-116, 124-134: what follows the one filtered GET
Filtered(r, filter, none_found) ==
    /\ calls' = Append(calls, filter)
    /\ lastStatus' = r.status
    /\ IF r.status = 401
       THEN /\ printed' = printed \cup {"incorrect_credentials"}
            /\ Exit(ExitOk)
            /\ UNCHANGED <<raised, served, pageLens>>
       ELSE IF r.status # 200
       THEN /\ printed' = printed \cup {"not_supported"}
            /\ Exit(ExitOk)
            /\ UNCHANGED <<raised, served, pageLens>>
       ELSE IF r.body # "members"
       THEN /\ raised' = "KeyError"
            /\ Exit(ExitTraceback)
            /\ UNCHANGED <<printed, served, pageLens>>
       ELSE /\ printed' = printed \cup {IF r.page = <<>> THEN none_found ELSE "data"}
            /\ served' = served \o r.page
            /\ pageLens' = Append(pageLens, Len(r.page))
            /\ Exit(ExitOk)
            /\ UNCHANGED raised
    /\ UNCHANGED <<args, server, iDRAC_version, FirmwareVersion, fileVars, seqIdx, offsets, lastMsg, ended>>

\* lines 99-101
severity_invalid ==
    /\ pc = "dispatch"
    /\ args.mode = "get_severity"
    /\ SeverityFilter(args.value) = ""
    /\ printed' = printed \cup {"invalid_severity"}
    /\ Exit(ExitOk)
    /\ UNCHANGED <<args, server, raised, iDRAC_version, FirmwareVersion, fileVars, walkVars, calls, lastStatus>>

get_specific_severity_logs ==
    /\ pc = "dispatch"
    /\ args.mode = "get_severity"
    /\ SeverityFilter(args.value) # ""
    /\ \E r \in FilterResponses : Filtered(r, SeverityFilter(args.value), "no_severity")

get_date_range ==
    /\ pc = "dispatch"
    /\ args.mode = "get_date_range"
    /\ \E r \in FilterResponses : Filtered(r, "Created ge and Created le", "no_date_range")

\* lines 476-477: no retrieval mode on the command line
no_mode ==
    /\ pc = "dispatch"
    /\ args.mode = "none"
    /\ printed' = printed \cup {"invalid_arguments"}
    /\ Exit(ExitOk)
    /\ UNCHANGED <<args, server, raised, iDRAC_version, FirmwareVersion, fileVars, walkVars, calls, lastStatus>>

Next ==
    \/ check_supported_idrac_version
    \/ get_iDRAC_version
    \/ get_LC_logs
    \/ get_LC_logs_loop
    \/ get_LC_log_failures
    \/ get_LC_log_failures_loop
    \/ get_message_id
    \/ get_message_id_loop
    \/ category_invalid
    \/ get_category_entries
    \/ get_category_entries_loop
    \/ severity_invalid
    \/ get_specific_severity_logs
    \/ get_date_range
    \/ no_mode

Spec == Init /\ [][Next]_vars

(* ------------------- the options of the HTTP requests ------------------ *)
\* The token and the --ssl value take no part in the control flow: the options of a
\* request are a function of the command line and of the place of the request
SslInputs == {<<>>, <<"t", "r", "u", "e">>, <<"T", "r", "u", "e">>, <<"f", "a", "l", "s", "e">>, <<"y", "e", "s">>}
TokenInputs == {<<>>, <<"3", "f", "a", "9", "c", "1">>}
TransportConfigs == [ssl : SslInputs, x : TokenInputs]

\* lines 450-458
verify_cert(ssl) ==
    IF ssl # <<>>
    THEN IF Lower(ssl) = <<"t", "r", "u", "e">> THEN TRUE
         ELSE IF Lower(ssl) = <<"f", "a", "l", "s", "e">> THEN FALSE
         ELSE FALSE
    ELSE FALSE

\* the requests.get calls: "Lclog" the probe (lines 62-65), "FirmwareVersion" the
\* version detection (lines 76-79), "filter" the severity and date-range requests
\* (lines 102-105, 120-123), "page" every log page fetch, with or without $skip
RequestKinds == {"Lclog", "FirmwareVersion", "filter", "page"}

RequestOptions(kind, cfg) ==
    IF cfg.x # <<>>
    THEN [auth |-> "X-Auth-Token", verify |-> verify_cert(cfg.ssl)]
    ELSE [auth |-> "Basic",
          verify |-> IF kind = "FirmwareVersion" THEN FALSE ELSE verify_cert(cfg.ssl)]

(* ------------------------------- claims -------------------------------- *)
ScanModes == {"get_fail", "get_message_id", "get_category"}
FileModes == ScanModes \cup {"get_all"}

\* the ways a walk ends that the script foresees
WalkEnds == {"empty", "http500", "endoflog", "fatal", "cap"}

Exited == pc = "exit"

\* C1: a fail-keyword, message-ID or category run that ends with match count 0
\* leaves no output file behind, whichever condition ended the walk
C1_ZeroMatchCleanup ==
    (Exited /\ args.mode \in ScanModes /\ ended \in WalkEnds /\ count = 0) => ~fileExists

\* C2: in every file-producing mode the output file is opened once and its handle
\* is closed exactly once on every path by which the run ends
C2_ClosedExactlyOnce ==
    (Exited /\ args.mode \in FileModes /\ ended \in WalkEnds) => (opens = 1 /\ closes = 1)

\* position of the first empty Members list among the pages received, 0 if none
FirstEmpty ==
    IF \E k \in 1..Len(pageLens) : pageLens[k] = 0
    THEN CHOOSE k \in 1..Len(pageLens) :
            pageLens[k] = 0 /\ \A i \in 1..(k - 1) : pageLens[i] # 0
    ELSE 0

\* the number of entries in the first k Members lists received
EntriesIn(k) == Cardinality(UNION {{<<i, j>> : j \in 1..pageLens[i]} : i \in 1..k})

\* C3 as stated: for any n >= 0, n non-empty status-200 pages followed by an empty
\* status-200 page make the full dump record exactly the entries of those n pages
C3_AnyNumberOfPages ==
    (args.mode = "get_all" /\ FirstEmpty >= 1)
        => written = SubSeq(served, 1, EntriesIn(FirstEmpty - 1))

\* C3 amended: for 1 <= n <= 2000, n non-empty status-200 pages followed by an empty
\* status-200 page end the full dump after n + 1 fetches with the file holding exactly
\* the entries of the n pages, in page order then in-page order, each once
C3_FullDumpRecordsPages ==
    (args.mode = "get_all" /\ FirstEmpty >= 2)
        => /\ Exited /\ exitStatus = ExitOk /\ ended = "empty"
           /\ Len(offsets) = FirstEmpty
           /\ FirstEmpty <= 2001
           /\ written = served
           /\ Len(written) = EntriesIn(FirstEmpty - 1)
           /\ fileExists

C3_Witness ==
    /\ args.mode = "get_all"
    /\ pageLens = <<1, 1, 0>>
    /\ written = <<3, 1>>

\* C4: the offsets requested in one run are 0, 50, 100, ... in this order: each a
\* non-negative multiple of 50, none requested twice, none re-issued
C4_OffsetsAscendByPageSize ==
    \A i \in 1..Len(offsets) :
        /\ offsets[i] = 50 * (i - 1)
        /\ i > 1 => offsets[i - 1] < offsets[i]

C4_Witness ==
    /\ args.mode = "get_category"
    /\ offsets = <<0, 50, 100, 150>>
    /\ lastStatus = 400

\* C5 as stated: at most 2000 pages are fetched in one run, the offset-0 page included
C5_AtMost2000Pages == Len(offsets) <= 2000

\* the run has a next step: __main__ goes on to a request or to a mode function, the
\* for loop has an offset left to fetch and the iDRAC answers it
Steppable ==
    CASE pc \in {"main", "get_version"} -> TRUE
      [] pc = "dispatch" -> args \in ArgSets
      [] pc = "loop" -> /\ args.mode \in FileModes
                        /\ seqIdx \in 1..Len(number_list)
                        /\ PageResponses # {}
      [] OTHER -> FALSE

\* the requests issued so far
Requests == Len(calls) + Len(offsets)

\* C5 amended: a walk always terminates, and it fetches at most 2001 pages in total:
\* the offset-0 page and the 2000 offsets 50, 100, ..., 100000.  Termination: a run
\* that has not exited has a next step, and every step either ends the run or
\* issues one more of a bounded number of requests
C5_TerminatesWithin2001Pages ==
    /\ [](/\ Len(offsets) <= 2001
          /\ Len(offsets) = 2001 => offsets[2001] = 100000
          /\ Len(calls) <= 3
          /\ Exited \/ Steppable)
    /\ [][Exited' \/ Requests' = Requests + 1]_vars

C5_Witness ==
    /\ Exited
    /\ ended = "cap"
    /\ Len(offsets) = 2001
    /\ Len(pageLens) = 2001
    /\ \A i \in 1..Len(pageLens) : pageLens[i] > 0

\* C6: for every mode and every sequence of responses the process ends with exit
\* status 0 and never with an unhandled error
C6_AlwaysExitsZero == Exited => (exitStatus = ExitOk /\ raised = "none")

\* C7: an invalid severity or category value is reported before any HTTP request
C7_InvalidArgumentBeforeAnyRequest ==
    ("invalid_severity" \in printed \/ "invalid_category" \in printed)
        => (calls = <<>> /\ offsets = <<>>)

EqualsIgnoringCase(a, b) ==
    /\ Len(a) = Len(b)
    /\ \A i \in 1..Len(a) : LowerChar(a[i]) = LowerChar(b[i])

\* C8: in category mode, for an accepted category in any letter casing, the entries
\* retained are exactly those whose Oem.Dell.Category equals the input ignoring case
C8_CategoryRetainedIgnoringCase ==
    (args.mode = "get_category" /\ raised = "none"
        /\ \E c \in Categories : EqualsIgnoringCase(args.value, c))
        => LET keep == {e \in EntryIds :
                            HasKey(e, "Oem") /\ EqualsIgnoringCase(Field(e, "Oem"), args.value)}
           IN  written = SelectSeq(served, LAMBDA e : e \in keep)

PlumbingCalls == {"Lclog", "FirmwareVersion"}

\* C9 as stated: only the exact lower-case spellings are accepted, any other casing
\* or value sends no filter request
C9_OtherCasingRefused ==
    (args.mode = "get_severity"
        /\ args.value \notin {<<"i", "n", "f", "o", "r", "m", "a", "t", "i", "o", "n", "a", "l">>, <<"w", "a", "r", "n", "i", "n", "g">>, <<"c", "r", "i", "t", "i", "c", "a", "l">>})
        => \A i \in 1..Len(calls) : calls[i] \in PlumbingCalls

C9_Expected(value) ==
    IF EqualsIgnoringCase(value, <<"i", "n", "f", "o", "r", "m", "a", "t", "i", "o", "n", "a", "l">>) THEN "Severity eq 'OK'"
    ELSE IF EqualsIgnoringCase(value, <<"w", "a", "r", "n", "i", "n", "g">>) THEN "Severity eq 'Warning'"
    ELSE IF EqualsIgnoringCase(value, <<"c", "r", "i", "t", "i", "c", "a", "l">>) THEN "Severity eq 'Critical'"
    ELSE "refused"

\* C9 amended: the filter sent is Severity eq 'OK' / 'Warning' / 'Critical' for an
\* input equal, ignoring case, to informational / warning / critical; any other
\* value is reported as invalid and no filter request is sent
C9_SeverityFilterIgnoringCase ==
    args.mode = "get_severity"
        => /\ \A i \in 1..Len(calls) :
                calls[i] \in PlumbingCalls \/ calls[i] = C9_Expected(args.value)
           /\ (Exited /\ Len(calls) = 2 /\ lastStatus \in {200, 401})
                => (C9_Expected(args.value) = "refused" /\ "invalid_severity" \in printed)
           /\ "invalid_severity" \in printed
                => (Exited /\ exitStatus = ExitOk /\ C9_Expected(args.value) = "refused")

C9_Witness ==
    /\ args.mode = "get_severity"
    /\ args.value = <<"C", "r", "i", "t", "i", "c", "a", "l">>
    /\ calls = <<"Lclog", "FirmwareVersion", "Severity eq 'Critical'">>

\* the dot-free suffix of s that starts s or follows a dot
C10_LastSegment(s) ==
    CHOOSE t \in {SubSeq(s, k, Len(s)) : k \in 1..(Len(s) + 1)} :
        /\ \A i \in 1..Len(t) : t[i] # "."
        /\ (Len(t) = Len(s) \/ s[Len(s) - Len(t)] = ".")

C10_Occurs(x, list) ==
    \E k \in 1..(Len(list) - Len(x) + 1) :
        \A i \in 1..Len(x) : LowerChar(list[k + i - 1]) = LowerChar(x[i])

\* C10: in message-ID mode an entry is retained iff its normalized MessageId occurs,
\* ignoring case, in the caller's ID list, the normalized ID being the last dot-
\* separated segment under "new" and the raw field under "old", on the offset-0 page
\* and on every skip page alike
C10_MessageIdRetained ==
    /\ NormalizeMessageId("new", <<"U", "p", "d", "a", "t", "e", ".", "1", ".", "0", ".", "W", "R", "K", "0", "0", "0", "1">>) = <<"W", "R", "K", "0", "0", "0", "1">>
    /\ NormalizeMessageId("old", <<"U", "p", "d", "a", "t", "e", ".", "1", ".", "0", ".", "W", "R", "K", "0", "0", "0", "1">>) = <<"U", "p", "d", "a", "t", "e", ".", "1", ".", "0", ".", "W", "R", "K", "0", "0", "0", "1">>
    /\ (args.mode = "get_message_id" /\ iDRAC_version # "undefined")
        => LET keep == {e \in EntryIds :
                            /\ HasKey(e, "MessageId")
                            /\ C10_Occurs(IF iDRAC_version = "new"
                                          THEN C10_LastSegment(Field(e, "MessageId"))
                                          ELSE Field(e, "MessageId"),
                                          args.value)}
           IN  /\ written = SelectSeq(served, LAMBDA e : e \in keep)
               /\ count = Len(written)

C10_Witness ==
    /\ args.mode = "get_message_id"
    /\ args.value = <<"w", "r", "k", "0", "0", "0", "1", ",", "U", "S", "R", "0", "0", "3", "0">>
    /\ iDRAC_version = "new"
    /\ pageLens = <<1, 1>>
    /\ served = <<1, 3>>
    /\ written = <<1, 3>>

\* a keyword occurs in the message whatever the casing of the message's letters
C11_OccursIn(keyword, message) ==
    \E k \in 1..(Len(message) - Len(keyword) + 1) :
        \A i \in 1..Len(keyword) : LowerChar(message[k + i - 1]) = keyword[i]

C11_Keywords == {<<"u", "n", "a", "b", "l", "e">>, <<"f", "a", "i", "l">>, <<"e", "r", "r", "o", "r">>}

\* the entries of the log whose Message holds one of the keywords
C11_Keep ==
    {e \in EntryIds : /\ HasKey(e, "Message")
                      /\ \E w \in C11_Keywords : C11_OccursIn(w, Field(e, "Message"))}

\* the two messages the keyword filter is specified on
C11_Examples ==
    /\ FailMatches(<<"U", "n", "a", "b", "l", "e", " ", "t", "o", " ", "c", "o", "n", "f", "i", "g", "u", "r", "e", " ", "N", "I", "C">>)
    /\ ~FailMatches(<<"C", "o", "n", "f", "i", "g", "u", "r", "a", "t", "i", "o", "n", " ", "a", "p", "p", "l", "i", "e", "d", " ", "s", "u", "c", "c", "e", "s", "s", "f", "u", "l", "l", "y">>)

\* C11: in fail-keyword mode an entry is retained iff its Message, lower-cased,
\* contains "unable", "fail" or "error"; the predicate is the same on the offset-0
\* page and on every skip page, and each matching entry is recorded exactly once
C11_FailKeywordRetained ==
    /\ C11_Examples
    /\ args.mode = "get_fail"
        => /\ written = SelectSeq(served, LAMBDA e : e \in C11_Keep)
           /\ count = Len(written)

C11_Witness ==
    /\ args.mode = "get_fail"
    /\ pageLens = <<1, 1>>
    /\ served = <<2, 3>>
    /\ written = <<3>>

\* C12: the entry content of lc_logs.txt is a function of the responses of the run
\* alone (every entry received, in order, and nothing else), and once get_LC_logs
\* has opened the file nothing an earlier run left on disk remains in it: two runs
\* that receive the same responses leave the same entry content
C12_FullDumpIdempotent ==
    args.mode = "get_all"
        => /\ written = served
           /\ opens <= 1
           /\ opens = 1 => (~stale /\ Len(offsets) >= 1)
           /\ opens = 0 => (written = <<>> /\ offsets = <<>>)

C12_Witness ==
    /\ args.mode = "get_all"
    /\ Exited
    /\ ended = "endoflog"
    /\ pageLens = <<1, 1>>
    /\ written = <<2, 4>>
    /\ fileExists /\ ~stale

\* C13: once get_LC_logs has started, lc_logs.txt exists in every later state, hence
\* at exit on every path, and the full dump never deletes the file it created
C13_FullDumpKeepsFile ==
    (args.mode = "get_all" /\ Len(offsets) >= 1)
        => /\ fileExists
           /\ ~stale
           /\ ~removedOpen
           /\ opens = 1

C13_Witness ==
    /\ args.mode = "get_all"
    /\ Exited
    /\ ended = "empty"
    /\ pageLens = <<0, 0>>
    /\ written = <<>>
    /\ fileExists

\* C14: in every paginating mode a non-200, non-500 response to a skip fetch whose
\* message holds "query parameter $skip is out of range" or "internal error" ends
\* the walk as end-of-log and is not reported as a failed GET request
C14_EndOfLogMessages ==
    (/\ args.mode \in FileModes
     /\ Len(offsets) >= 2
     /\ lastStatus \notin {200, 500}
     /\ lastMsg # 0
     /\ SkipOutOfRange(lastMsg) \/ InternalError(lastMsg))
        => (Exited /\ ended = "endoflog" /\ "skip_failed" \notin printed)

\* C15: in every paginating mode an HTTP 500 answered to a skip fetch ends the run
\* with no further request and no failure reported, and the entries recorded before
\* it are still in the output file when there is at least one
C15_Http500EndsWalk ==
    /\ []((args.mode \in FileModes /\ Len(offsets) >= 2 /\ lastStatus = 500)
            => /\ Exited /\ exitStatus = ExitOk /\ raised = "none"
               /\ ended = "http500"
               /\ "skip_failed" \notin printed
               /\ written # <<>> => (fileExists /\ ~stale /\ handle = "closed"))
    /\ [][/\ ~Exited
          /\ (args.mode \in FileModes /\ Len(offsets') >= 2 /\ lastStatus' = 500)
                => written' = written]_vars

C15_Witness ==
    /\ args.mode = "get_category"
    /\ Exited
    /\ lastStatus = 500
    /\ offsets = <<0, 50>>
    /\ written = <<1>>
    /\ fileExists

\* C16: a capability probe answered with any status other than 200 ends the run at
\* once: no further request, no output file created, truncated or deleted; only a
\* 200 lets the run go on to the version detection
C16_ProbeFailureAborts ==
    /\ []((calls = <<"Lclog">> /\ lastStatus # 200)
            => /\ Exited /\ exitStatus = ExitOk
               /\ offsets = <<>>
               /\ opens = 0 /\ handle = "none" /\ written = <<>>
               /\ fileExists = stale
               /\ printed = {IF lastStatus = 401 THEN "incorrect_credentials"
                                                 ELSE "not_supported"})
    /\ [][/\ ~Exited
          /\ pc = "main" => /\ calls' = <<"Lclog">> /\ offsets' = <<>>
                            /\ UNCHANGED fileVars
                            /\ (pc' = "get_version") <=> (lastStatus' = 200)
                            /\ (pc' = "exit") <=> (lastStatus' # 200)]_vars

C16_Witness ==
    /\ calls = <<"Lclog">>
    /\ lastStatus = 400
    /\ Exited
    /\ fileExists /\ stale
    /\ "not_supported" \in printed

\* C17: in every paginating mode a status-200 response to a skip fetch with an empty
\* Members list stops the walk: no fetch at a larger offset follows it
C17_EmptyPageStops ==
    args.mode \in FileModes
        => \A k \in 2..Len(pageLens) : pageLens[k] = 0 => Len(offsets) = k

FilterModes == {"get_severity", "get_date_range"}

\* C18: in severity and date-range mode the pages of the filtered result are fetched
\* one after the other until a terminating condition, so a run does not end on a
\* status-200 response that holds entries
C18_FilteredResultPaginated ==
    (/\ args.mode \in FilterModes
     /\ Exited
     /\ raised = "none"
     /\ lastStatus = 200
     /\ pageLens # <<>>)
        => pageLens[Len(pageLens)] = 0

\* the text the recording contract gives an entry: one "field: value" line for each
\* attribute, in the entry's attribute order, and a blank line after them
C19_Layout(lines, e) ==
    /\ Len(lines) = Len(EntryTable[e]) + 1
    /\ lines[Len(lines)] = <<>>
    /\ \A i \in 1..Len(EntryTable[e]) :
        LET key == KeyChars(EntryTable[e][i][1])
            val == ValueText(EntryTable[e][i])
        IN  /\ Len(lines[i]) = Len(key) + 2 + Len(val)
            /\ SubSeq(lines[i], 1, Len(key)) = key
            /\ SubSeq(lines[i], Len(key) + 1, Len(key) + 2) = <<":", " ">>
            /\ SubSeq(lines[i], Len(key) + 3, Len(lines[i])) = val

\* C19: in every file-producing mode each recorded entry is written as one
\* "field: value" line per attribute, in attribute order, followed by a blank line
C19_FieldValueLines ==
    (args.mode \in FileModes /\ written # <<>>)
        => C19_Layout(lastLines, written[Len(written)])

C20_Digit(c) ==
    CASE c = "0" -> 0 [] c = "1" -> 1 [] c = "2" -> 2 [] c = "3" -> 3 [] c = "4" -> 4
      [] c = "5" -> 5 [] c = "6" -> 6 [] c = "7" -> 7 [] c = "8" -> 8 [] c = "9" -> 9

\* the integer whose decimal digits are the characters of fw other than the dots
C20_Integer(fw) ==
    LET d == SelectSeq(fw, LAMBDA c : c # ".")
        w[i \in 0..Len(d)] ==
            IF i = 0 THEN 0 ELSE w[i - 1] + C20_Digit(d[Len(d) - i + 1]) * 10 ^ (i - 1)
    IN  w[Len(d)]

\* C20: the version selected is "new" iff the integer read from the FirmwareVersion
\* string without its dots is at least 6000000, "old" otherwise; it is set by the
\* version detection, before any retrieval mode starts, and never changed afterwards
C20_VersionSelected ==
    /\ [](/\ FirmwareVersion # <<>>
                => iDRAC_version = IF C20_Integer(FirmwareVersion) >= 6000000
                                   THEN "new" ELSE "old"
          /\ FirmwareVersion = <<>> => iDRAC_version = "undefined"
          /\ pc \in {"main", "get_version"}
                => (FirmwareVersion = <<>> /\ offsets = <<>> /\ opens = 0 /\ Len(calls) <= 1))
    /\ [][pc # "get_version" => UNCHANGED <<iDRAC_version, FirmwareVersion>>]_vars

C20_Witness ==
    /\ FirmwareVersion = <<"6", ".", "0", "0", ".", "0", "0", ".", "0", "0">>
    /\ iDRAC_version = "new"
    /\ args.mode = "get_message_id"
    /\ pc = "loop"
    /\ offsets = <<0, 50>>

\* C21: message-ID mode never runs with the old/new convention undefined: whenever
\* its predicate is evaluated on an entry, version detection has set the convention
\* to "old" or "new", whatever the probe and the version request were answered
C21_ConventionDefined ==
    (args.mode = "get_message_id" /\ offsets # <<>>)
        => (iDRAC_version \in {"old", "new"} /\ raised # "NameError")

\* C22: in fail-keyword, message-ID and category mode the output file is never
\* deleted while its handle is open: the close comes before the remove on every path
C22_ClosedBeforeRemove ==
    args.mode \in ScanModes => ~removedOpen

\* the kinds of the requests issued so far
C23_Issued ==
    {IF calls[i] \in PlumbingCalls THEN calls[i] ELSE "filter" : i \in 1..Len(calls)}
        \cup (IF offsets = <<>> THEN {} ELSE {"page"})

\* C23: every request of a run uses the same credential mode (the token header if a
\* token was supplied, HTTP Basic otherwise) and the same TLS verification value,
\* the one the --ssl option selects
C23_SameTransportOptions ==
    \A cfg \in TransportConfigs : \A kind \in C23_Issued :
        RequestOptions(kind, cfg) =
            [auth |-> IF cfg.x = <<>> THEN "Basic" ELSE "X-Auth-Token",
             verify |-> EqualsIgnoringCase(cfg.ssl, <<"t", "r", "u", "e">>)]

\* the ways of ending on which the scan decides between keeping and deleting its file
C24_Decided ==
    \/ ended \in {"empty", "cap", "endoflog"}
    \/ args.mode = "get_category" /\ ended = "http500"

\* C24: in fail-keyword, message-ID and category mode the match counter equals the
\* number of entry records written so far; it starts at 0, grows by exactly 1 with
\* each entry recorded and never decreases, and the file is kept or deleted at the
\* end according to that value
C24_CounterMatchesRecords ==
    /\ [](args.mode \in ScanModes
            => /\ count = Len(written)
               /\ offsets = <<>> => count = 0
               /\ (opens = 1 /\ ~fileExists) => count = 0
               /\ (Exited /\ C24_Decided) => (fileExists <=> count > 0))
    /\ [][args.mode \in ScanModes
            => /\ count' >= count
               /\ count' - count = Len(written') - Len(written)
               /\ count' - count <= Len(served') - Len(served)]_vars

C24_Witness ==
    /\ args.mode = "get_fail"
    /\ Exited
    /\ ended = "empty"
    /\ pageLens = <<1, 1, 0>>
    /\ written = <<1, 3>>
    /\ count = 2
    /\ fileExists
====
